---- MODULE Spec2Model ----
(***************************************************************************)
(* Model of discord_bot/bot.py: the AIVoiceBot client.  Every event the    *)
(* client library dispatches runs its handler as a task of its own; a task *)
(* runs without interruption up to its next await (asyncio.sleep or        *)
(* channel.connect) and the tasks interleave at these points.  The live    *)
(* tasks are a bag of task records: the order in which they were created   *)
(* plays no part in what the event loop may run next.                      *)
(* A handler's run from the call by the library to its first await is one  *)
(* action; each resumption after an await is another.                      *)
(***************************************************************************)
EXTENDS Integers, Sequences, FiniteSets, Bags, TLC

\* ---------------------------------------------------------------- bounds
MaxTasks == 2          \* handler tasks alive at the same time
MaxHandles == 2        \* voice clients the platform hands out in one run

\* ------------------------------------------------------------- constants
VOICE_CHANNEL_ID == "1344418892948312154"
OtherChannelId == "other-channel"
NoChannel == "None"
Channels == {NoChannel, VOICE_CHANNEL_ID, OtherChannelId}

UserId == "bot"
OtherId == "42"

TokenValues == {"None", "", "token"}
NoClient == 0
SleepDelay == 2

VARIABLES TOKEN, mainpc, readySent, voice_client, tasks, done,
          cached, botChannel, nextHandle

vars == <<TOKEN, mainpc, readySent, voice_client, tasks, done,
          cached, botChannel, nextHandle>>

\* ------------------------------------------------------- pure conditions
\* variant: the token is only compared with None
TruthyNotNone(tok) == tok # "None"

\* Python truthiness of the token: None and "" are falsy.
Truthy(tok) == tok \notin {"None", ""}

\* variant: the member is not compared with the bot
AnyDisconnect(member, before, after) ==
    before # NoChannel /\ after = NoChannel

\* variant: only the previous channel is tested
BeforeOnly(member, before, after) == before # NoChannel

\* line 35: the bot itself went from some channel to no channel.
IsSelfDisconnect(member, before, after) ==
    member = UserId /\ before # NoChannel /\ after = NoChannel

\* variant: the stored voice client is not looked at
TargetOnly(vc, after) == after # NoChannel /\ after = VOICE_CHANNEL_ID

\* variant: the test of the stored voice client is inverted
ClientAndTarget(vc, after) ==
    vc # NoClient /\ after # NoChannel /\ after = VOICE_CHANNEL_ID

\* line 40: no voice client and the event's new channel is the target.
NoClientAndTarget(vc, after) ==
    vc = NoClient /\ after # NoChannel /\ after = VOICE_CHANNEL_ID

\* variant: the member is not compared with the bot
AnyMember(member) == TRUE

\* line 41: the member is not the bot.
NotSelf(member) == member # UserId

\* variant: the sleep returns at once
SleepOverAtOnce(t) == TRUE

\* line 37: asyncio.sleep(2) returns no earlier than 2 time units after
\* the task began to sleep.
SleepOver(t) == t.elapsed >= SleepDelay

\* ------------------------------------------------------------ task records
\* printed is the last line the handler printed (lines 18, 24, 29, 31, 36);
\* mark singles out one handler for an observer to follow.
NewTask(kind, member, before, after) ==
    [kind |-> kind, member |-> member, before |-> before, after |-> after,
     pc |-> "start", elapsed |-> 0, joins |-> 0, connects |-> 0,
     printed |-> "nothing", mark |-> FALSE]

NoTask == [kind |-> "none", member |-> UserId, before |-> NoChannel,
           after |-> NoChannel, pc |-> "none", elapsed |-> 0,
           joins |-> 0, connects |-> 0, printed |-> "nothing",
           mark |-> FALSE]

One(t) == SetToBag({t})
Live == BagToSet(tasks)
\* the tasks of bag b whose records are in S
Sub(b, S) == [r \in BagToSet(b) \cap S |-> b[r]]

\* The task with record r returns as t: it leaves the bag of live tasks.
\* (The record of a handler that has just been called is in no bag yet:
\* taking it out changes nothing.)
Finish(r, t) ==
    /\ tasks' = tasks (-) One(r)
    /\ done' = [t EXCEPT !.pc = "done"]

\* The task with record r suspends at an await as t.
Suspend(r, t) ==
    /\ tasks' = (tasks (-) One(r)) (+) One(t)
    /\ UNCHANGED done

\* variant: the result of get_channel is not tested
CallJoinUnchecked(t, pcAwait) ==
    [t EXCEPT !.joins = @ + 1, !.connects = @ + 1, !.pc = pcAwait]

\* lines 21-28, up to the await: the task calls connect_to_voice_channel
\* from the call site whose await is named by pcAwait.  When get_channel
\* finds nothing the call returns at once with the record unchanged but for
\* the call count; otherwise the connect request is issued.
CallJoin(t, pcAwait) ==
    IF cached
    THEN [t EXCEPT !.joins = @ + 1, !.connects = @ + 1, !.pc = pcAwait]
    ELSE [t EXCEPT !.joins = @ + 1, !.pc = "returned",
                   !.printed = "not_found"]

\* lines 40-42 for a task that reached line 40 with voice client vc.
SecondIf(r, t, vc) ==
    IF NoClientAndTarget(vc, t.after) /\ NotSelf(t.member)
    THEN LET u == CallJoin(t, "connect_follow")
         IN IF u.pc = "returned" THEN Finish(r, u) ELSE Suspend(r, u)
    ELSE Finish(r, t)

\* ------------------------------------------------------------------- Init
Init ==
    /\ TOKEN \in TokenValues
    /\ mainpc = "start"
    /\ readySent = FALSE
    /\ voice_client = NoClient
    /\ tasks = EmptyBag
    /\ done = NoTask
    /\ cached \in BOOLEAN
    /\ botChannel = NoChannel
    /\ nextHandle = 1

\* ---------------------------------------------------------------- actions
\* lines 44-50: main
Main ==
    /\ mainpc = "start"
    /\ mainpc' = IF ~Truthy(TOKEN) THEN "exited" ELSE "running"
    /\ UNCHANGED <<TOKEN, readySent, voice_client, tasks, done, cached,
                   botChannel, nextHandle>>

\* lines 17-19: the library calls on_ready once the session is
\* established; the handler runs up to its first await.
OnReady ==
    /\ mainpc = "running"
    /\ ~readySent
    /\ BagCardinality(tasks) < MaxTasks
    /\ readySent' = TRUE
    /\ LET r == NewTask("ready", UserId, NoChannel, NoChannel)
           u == CallJoin([r EXCEPT !.printed = "ready"], "connect_ready")
       IN IF u.pc = "returned" THEN Finish(r, u) ELSE Suspend(r, u)
    /\ UNCHANGED <<TOKEN, mainpc, voice_client, cached, botChannel,
                   nextHandle>>

\* lines 34-42: on_voice_state_update(member, before, after) from its
\* start to its first await
OnVoiceStateUpdate(member, before, after) ==
    LET r == NewTask("vsu", member, before, after)
    IN IF IsSelfDisconnect(member, before, after)
       THEN Suspend(r, [r EXCEPT !.pc = "sleep", !.printed = "disconnected"])
       ELSE SecondIf(r, r, voice_client)

ConnectInFlight ==
    \E r \in Live :
        r.pc \in {"connect_ready", "connect_retry", "connect_follow"}

\* The platform changes the bot's own voice state and the library calls
\* on_voice_state_update(bot, before, after).  The bot enters voice from no
\* channel only while a connect request of its own is in flight, and then
\* it enters the target channel; once in a channel it may be moved, updated
\* in place, or disconnected.
SelfVoiceStateUpdate(after) ==
    /\ mainpc = "running"
    /\ BagCardinality(tasks) < MaxTasks
    /\ IF botChannel = NoChannel
       THEN ConnectInFlight /\ after = VOICE_CHANNEL_ID
       ELSE TRUE
    /\ botChannel' = after
    /\ OnVoiceStateUpdate(UserId, botChannel, after)
    /\ UNCHANGED <<TOKEN, mainpc, readySent, voice_client, cached,
                   nextHandle>>

\* Another member's voice state changes: the member joins the target
\* channel (from nowhere or from another channel), changes state while
\* staying in it, leaves it, or joins another channel.
MemberUpdates ==
    {<<NoChannel, VOICE_CHANNEL_ID>>, <<OtherChannelId, VOICE_CHANNEL_ID>>,
     <<VOICE_CHANNEL_ID, VOICE_CHANNEL_ID>>, <<VOICE_CHANNEL_ID, NoChannel>>,
     <<NoChannel, OtherChannelId>>}

MemberVoiceStateUpdate(before, after) ==
    /\ mainpc = "running"
    /\ BagCardinality(tasks) < MaxTasks
    /\ OnVoiceStateUpdate(OtherId, before, after)
    /\ UNCHANGED <<TOKEN, mainpc, readySent, voice_client, cached,
                   botChannel, nextHandle>>

\* one time unit passes for every task inside asyncio.sleep
Sleeping(r) == r.pc = "sleep" /\ r.elapsed < SleepDelay

Later(r) == IF Sleeping(r) THEN [r EXCEPT !.elapsed = @ + 1] ELSE r

Tick ==
    /\ \E r \in Live : Sleeping(r)
    /\ tasks' = [u \in {Later(r) : r \in Live} |->
                   BagCardinality(Sub(tasks, {r \in Live : Later(r) = u}))]
    /\ UNCHANGED <<TOKEN, mainpc, readySent, voice_client, done, cached,
                   botChannel, nextHandle>>

\* variant: the retry call after the sleep is left out
WakeNoRetry(r) ==
    /\ r.pc = "sleep"
    /\ SleepOver(r)
    /\ SecondIf(r, r, voice_client)
    /\ UNCHANGED <<TOKEN, mainpc, readySent, voice_client, cached,
                   botChannel, nextHandle>>

\* lines 37-38: asyncio.sleep(2) returns and the retry is called; when the
\* channel is not found the task goes straight on to line 40.
Wake(r) ==
    /\ r.pc = "sleep"
    /\ SleepOver(r)
    /\ LET u == CallJoin(r, "connect_retry")
       IN IF u.pc = "returned"
          THEN SecondIf(r, [u EXCEPT !.pc = "sleep"], voice_client)
          ELSE Suspend(r, u)
    /\ UNCHANGED <<TOKEN, mainpc, readySent, voice_client, cached,
                   botChannel, nextHandle>>

\* lines 28-31 and what follows the call: the rest of a handler after its
\* connect request has ended with voice client vc now stored.
AfterConnect(r, vc, msg) ==
    LET t == [r EXCEPT !.printed = msg]
    IN IF r.pc = "connect_retry" THEN SecondIf(r, t, vc) ELSE Finish(r, t)

\* variant: the voice client that connect() returns is not stored
ConnectSucceedsNotStored(r) ==
    /\ r.pc \in {"connect_ready", "connect_retry", "connect_follow"}
    /\ botChannel = VOICE_CHANNEL_ID
    /\ nextHandle <= MaxHandles
    /\ nextHandle' = nextHandle + 1
    /\ AfterConnect(r, voice_client, "connected")
    /\ UNCHANGED <<TOKEN, mainpc, readySent, voice_client, cached,
                   botChannel>>

\* variant: a voice client already stored is not overwritten
ConnectSucceedsKeepsFirst(r) ==
    /\ r.pc \in {"connect_ready", "connect_retry", "connect_follow"}
    /\ botChannel = VOICE_CHANNEL_ID
    /\ nextHandle <= MaxHandles
    /\ voice_client' =
           IF voice_client = NoClient THEN nextHandle ELSE voice_client
    /\ nextHandle' = nextHandle + 1
    /\ AfterConnect(r, voice_client', "connected")
    /\ UNCHANGED <<TOKEN, mainpc, readySent, cached, botChannel>>

\* lines 28-29: channel.connect() returns a new voice client
ConnectSucceeds(r) ==
    /\ r.pc \in {"connect_ready", "connect_retry", "connect_follow"}
    /\ botChannel = VOICE_CHANNEL_ID
    /\ nextHandle <= MaxHandles
    /\ voice_client' = nextHandle
    /\ nextHandle' = nextHandle + 1
    /\ AfterConnect(r, nextHandle, "connected")
    /\ UNCHANGED <<TOKEN, mainpc, readySent, cached, botChannel>>

\* variant: a failed connect is tried again at once
ConnectFailsRetries(r) ==
    /\ r.pc \in {"connect_ready", "connect_retry", "connect_follow"}
    /\ r.joins < 2
    /\ Suspend(r, [r EXCEPT !.joins = @ + 1, !.connects = @ + 1,
                            !.printed = "failed"])
    /\ UNCHANGED <<TOKEN, mainpc, readySent, voice_client, cached,
                   botChannel, nextHandle>>

\* variant: the exception of channel.connect() is not caught and ends the
\* handler
ConnectFailsEscapes(r) ==
    /\ r.pc \in {"connect_ready", "connect_retry", "connect_follow"}
    /\ tasks' = tasks (-) One(r)
    /\ done' = [r EXCEPT !.pc = "raised"]
    /\ UNCHANGED <<TOKEN, mainpc, readySent, voice_client, cached,
                   botChannel, nextHandle>>

\* lines 30-31: channel.connect() raises and the exception is printed
ConnectFails(r) ==
    /\ r.pc \in {"connect_ready", "connect_retry", "connect_follow"}
    /\ AfterConnect(r, voice_client, "failed")
    /\ UNCHANGED <<TOKEN, mainpc, readySent, voice_client, cached,
                   botChannel, nextHandle>>

\* An observer picks one sleeping disconnect handler to follow to its end;
\* it follows one handler at a time.  The mark changes nothing the program
\* does.
Mark(r) ==
    /\ r.pc = "sleep" /\ ~r.mark
    /\ \A t \in Live : ~t.mark
    /\ tasks' = (tasks (-) One(r)) (+) One([r EXCEPT !.mark = TRUE])
    /\ UNCHANGED <<TOKEN, mainpc, readySent, voice_client, done, cached,
                   botChannel, nextHandle>>

\* the client's channel cache gains or loses the target channel
CacheChange ==
    /\ mainpc = "running"
    /\ cached' = ~cached
    /\ UNCHANGED <<TOKEN, mainpc, readySent, voice_client, tasks, done,
                   botChannel, nextHandle>>

Next ==
    \/ Main
    \/ OnReady
    \/ \E after \in Channels : SelfVoiceStateUpdate(after)
    \/ \E ba \in MemberUpdates : MemberVoiceStateUpdate(ba[1], ba[2])
    \/ CacheChange
    \/ Tick
    \/ \E r \in Live : Wake(r)
    \/ \E r \in Live : ConnectSucceeds(r)
    \/ \E r \in Live : ConnectFails(r)
    \/ \E r \in Live : Mark(r)

Spec == Init /\ [][Next]_vars

\* The event loop lets time pass for a sleeping handler, resumes a handler
\* whose sleep is over, and channel.connect() ends (it returns, raises or
\* times out).  The conditions are stated for the handler the observer
\* follows.
Followed(pc) ==
    {[NewTask("vsu", UserId, b, NoChannel) EXCEPT
         !.pc = pc, !.elapsed = SleepDelay, !.printed = "disconnected",
         !.mark = TRUE, !.joins = n, !.connects = n] :
       b \in Channels \ {NoChannel}, n \in 0..1}

FairSpec ==
    /\ Spec
    /\ WF_vars(Tick)
    /\ \A r \in Followed("sleep") : WF_vars(r \in Live /\ Wake(r))
    /\ \A r \in Followed("connect_retry") :
           WF_vars(r \in Live /\ (ConnectSucceeds(r) \/ ConnectFails(r)))

\* ------------------------------------------------- helpers for the claims
Awaits == {"connect_ready", "connect_retry", "connect_follow"}
NumInFlight == BagCardinality(Sub(tasks, {r \in Live : r.pc \in Awaits}))
NumInFlightNext ==
    BagCardinality(Sub(tasks', {r \in BagToSet(tasks') : r.pc \in Awaits}))
NumRetrying ==
    BagCardinality(Sub(tasks, {r \in Live : r.pc = "connect_retry"}))
Records == Live \cup {done}
SelfDisconnected(t) ==
    t.kind = "vsu" /\ t.member = UserId /\ t.before # NoChannel
                   /\ t.after = NoChannel
MemberJoinedTargetChannel(t, m) ==
    t.kind = "vsu" /\ t.member = m /\ t.after = VOICE_CHANNEL_ID
                   /\ t.before # VOICE_CHANNEL_ID
\* the record a handler step leaves: the task as it is suspended now, or
\* the record of the handler that returned
After ==
    IF \E u \in BagToSet(tasks') : CopiesIn(u, tasks') > CopiesIn(u, tasks)
    THEN CHOOSE u \in BagToSet(tasks') :
             CopiesIn(u, tasks') > CopiesIn(u, tasks)
    ELSE done'

\* C1: at most one connect request for the target channel is in flight at
\* any time, whatever the interleaving of the handlers.
C1_OneJoinInFlight == NumInFlight <= 1

\* C2: the handler of a SelfDisconnected event of the bot that starts while
\* a voice client is stored clears the stored voice client before it begins
\* the delay.
C2_ClearedBeforeDelay ==
    [][(SelfVoiceStateUpdate(NoChannel) /\ botChannel # NoChannel
          /\ voice_client # NoClient)
       => voice_client' = NoClient]_vars

\* C3: however many disconnects of the bot follow one another before a
\* reconnect completes, the retries never run in parallel: at most one
\* retry connect request is outstanding.
C3_OneRetryOutstanding == NumRetrying <= 1

\* C4: the handler of one SelfDisconnected event of the bot calls
\* connect_to_voice_channel exactly once, and only after the 2-unit delay
\* has fully elapsed: no call before or during the delay, one call once it
\* is over, whether the connect then succeeds or fails.
C4_SingleShotAfterDelay ==
    \A t \in Records :
        SelfDisconnected(t) =>
            /\ t.pc = "sleep" => t.joins = 0
            /\ t.pc \in {"connect_retry", "done"} =>
                   t.joins = 1 /\ t.elapsed >= 2
            /\ t.pc \in {"sleep", "connect_retry", "done"}

C4_Witness ==
    /\ SelfDisconnected(done) /\ done.joins = 1 /\ done.connects = 1
    /\ done.elapsed = 2

\* C5: a call of connect_to_voice_channel made while get_channel finds
\* nothing for VOICE_CHANNEL_ID issues no connect request and leaves the
\* stored voice client as it was, from each of the three call sites.
C5_NotFoundNoConnect ==
    [][((\/ OnReady
          \/ \E after \in Channels : SelfVoiceStateUpdate(after)
          \/ \E ba \in MemberUpdates : MemberVoiceStateUpdate(ba[1], ba[2])
          \/ \E r \in Live : Wake(r)) /\ ~cached)
       => /\ NumInFlightNext = NumInFlight
          /\ After.connects = 0
          /\ After.pc \in {"done", "sleep"}
          /\ voice_client' = voice_client]_vars

C5_Witness ==
    /\ SelfDisconnected(done) /\ done.joins = 1 /\ done.connects = 0
    /\ voice_client = NoClient /\ ~cached

\* C6: an event of the bot itself joining the target channel never makes
\* its handler call connect_to_voice_channel, whether or not a voice client
\* is stored and also while a connect request of the bot is in flight.
C6_OwnJoinNeverJoins ==
    \A t \in Records :
        (t.kind = "vsu" /\ t.member = UserId /\ t.after = VOICE_CHANNEL_ID)
        => t.joins = 0 /\ t.connects = 0 /\ t.pc = "done"

C6_Witness ==
    /\ MemberJoinedTargetChannel(done, UserId) /\ done.pc = "done"
    /\ voice_client = NoClient
    /\ NumInFlight = 1

\* C7: the handler of another member's join of the target channel that
\* runs while a voice client is stored does nothing: it makes no call of
\* connect_to_voice_channel, issues no connect request and leaves the
\* stored voice client unchanged.
C7_JoinWhileConnectedNoOp ==
    [][\A b \in Channels \ {VOICE_CHANNEL_ID} :
          (MemberVoiceStateUpdate(b, VOICE_CHANNEL_ID)
             /\ voice_client # NoClient)
          => /\ MemberJoinedTargetChannel(done', OtherId)
             /\ done'.before = b /\ done'.pc = "done"
             /\ done'.joins = 0
             /\ tasks' = tasks
             /\ voice_client' = voice_client]_vars

C7_Witness ==
    /\ MemberJoinedTargetChannel(done, OtherId) /\ done.pc = "done"
    /\ done.joins = 0 /\ voice_client # NoClient

\* C8: the handler of another member's join of the target channel that
\* runs while no voice client is stored calls connect_to_voice_channel
\* exactly once: once when it runs, and never again until it returns.
C8_JoinWhileDisconnectedJoinsOnce ==
    /\ [][\A b \in Channels \ {VOICE_CHANNEL_ID} :
            (MemberVoiceStateUpdate(b, VOICE_CHANNEL_ID)
               /\ voice_client = NoClient)
            => /\ MemberJoinedTargetChannel(After, OtherId)
               /\ After.joins = 1]_vars
    /\ [](\A t \in Records :
            MemberJoinedTargetChannel(t, OtherId) =>
                /\ t.pc = "connect_follow" => t.joins = 1
                /\ t.joins <= 1)

C8_Witness ==
    /\ MemberJoinedTargetChannel(done, OtherId) /\ done.pc = "done"
    /\ done.joins = 1 /\ done.connects = 1

\* C9: when get_channel finds the channel and the platform accepts the
\* join, on_ready issues exactly one connect request and returns with a
\* voice client stored.
C9_ReadyConnects ==
    [][/\ (OnReady /\ cached) =>
              /\ NumInFlightNext = NumInFlight + 1
              /\ After.kind = "ready" /\ After.pc = "connect_ready"
              /\ After.joins = 1 /\ After.connects = 1
       /\ \A r \in Live :
              (ConnectSucceeds(r) /\ r.kind = "ready") =>
                  /\ done'.kind = "ready" /\ done'.pc = "done"
                  /\ done'.joins = 1 /\ done'.connects = 1
                  /\ voice_client' # NoClient]_vars

C9_Witness ==
    /\ done.kind = "ready" /\ done.pc = "done" /\ done.connects = 1
    /\ voice_client = 1 /\ tasks = EmptyBag

\* C10: with the token missing (unset or empty) the program exits without
\* starting the client: no handler is ever dispatched and no connect
\* request is ever made.
C10_NoTokenNoClient ==
    TOKEN \in {"None", ""} =>
        /\ mainpc # "running"
        /\ ~readySent
        /\ tasks = EmptyBag /\ done = NoTask
        /\ voice_client = NoClient /\ nextHandle = 1
        /\ botChannel = NoChannel

C10_Witness == TOKEN = "None" /\ mainpc = "exited"

\* C11: a connect_to_voice_channel that fails, because the channel is not
\* found or because channel.connect() raises, leaves the stored voice
\* client as it was (none stays none), and the handler that made the call
\* returns normally after printing the failure: no exception leaves it.
C11_FailedJoinLeavesState ==
    [][/\ \A r \in Live :
              ConnectFails(r) =>
                  /\ voice_client' = voice_client
                  /\ done'.pc = "done" /\ done'.printed = "failed"
                  /\ done'.kind = r.kind /\ done'.joins = r.joins
                  /\ BagCardinality(tasks') = BagCardinality(tasks) - 1
       /\ ((\/ OnReady
            \/ \E after \in Channels : SelfVoiceStateUpdate(after)
            \/ \E ba \in MemberUpdates :
                   MemberVoiceStateUpdate(ba[1], ba[2])
            \/ \E r \in Live : Wake(r)) /\ After.printed = "not_found")
          => /\ voice_client' = voice_client
             /\ After = done' /\ done'.pc = "done"
             /\ BagCardinality(tasks') <= BagCardinality(tasks)]_vars

C11_Witness ==
    /\ done.kind = "ready" /\ done.pc = "done" /\ done.printed = "failed"
    /\ voice_client = NoClient /\ tasks = EmptyBag

\* C12: after a failed connect_to_voice_channel the next join of the
\* target channel by another member still calls connect_to_voice_channel:
\* with the last handler ended in failure, no handler pending and the bot
\* in no channel, such an event makes one call.
C12_EligibleAfterFailure ==
    [][\A b \in Channels \ {VOICE_CHANNEL_ID} :
          (MemberVoiceStateUpdate(b, VOICE_CHANNEL_ID)
             /\ done.printed \in {"not_found", "failed"}
             /\ tasks = EmptyBag /\ botChannel = NoChannel)
          => After.joins = 1]_vars

\* C13: under fair scheduling every disconnect handler of the bot ends
\* after exactly one retry, and when that retry found the channel and the
\* platform accepted the join, the bot is in the target channel and the
\* stored voice client is the one of the new session.
Marked == \E r \in Live : r.mark

Reconnected ==
    /\ ~Marked /\ done.mark /\ SelfDisconnected(done) /\ done.joins = 1
    /\ done.printed \in {"connected", "not_found", "failed"}
    /\ done.printed = "connected" =>
           /\ voice_client # NoClient /\ voice_client = nextHandle - 1
           /\ botChannel = VOICE_CHANNEL_ID

C13_SelfHealing == Marked ~> Reconnected

C13_Witness == Reconnected /\ done.printed = "connected" /\ voice_client = 2

\* C14: a failed connect schedules nothing: the handler whose connect
\* failed returns without another call, no handler ever calls
\* connect_to_voice_channel twice, a connect request is only ever issued
\* by a step of a handler, and a handler that called is the handler of
\* on_ready, of a disconnect of the bot, or of another member's event in
\* the target channel.
HandlerStep ==
    \/ OnReady
    \/ \E after \in Channels : SelfVoiceStateUpdate(after)
    \/ \E ba \in MemberUpdates : MemberVoiceStateUpdate(ba[1], ba[2])
    \/ \E r \in Live : Wake(r)

C15_NoRetryWhenDisconnected ==
    [][(SelfVoiceStateUpdate(NoChannel) /\ voice_client = NoClient)
       => tasks' = tasks]_vars

\* C15 as amended: the delay is started by exactly the events of the bot
\* whose previous channel is set and whose new channel is absent, whether
\* or not a voice client is stored; no other event starts it, and the
\* handler has made no call when it starts to sleep.
C15_RetryOnEveryOwnDisconnect ==
    /\ [][/\ \A a \in Channels :
                SelfVoiceStateUpdate(a) =>
                    IF a = NoChannel
                    THEN /\ botChannel # NoChannel
                         /\ After.pc = "sleep" /\ After.joins = 0
                         /\ After.elapsed = 0
                         /\ SelfDisconnected(After)
                         /\ BagCardinality(tasks')
                               = BagCardinality(tasks) + 1
                    ELSE tasks' = tasks
         /\ \A ba \in MemberUpdates :
                MemberVoiceStateUpdate(ba[1], ba[2]) =>
                    (After.pc # "sleep" /\ After.pc # "connect_retry")]_vars
    /\ [](\A t \in Live :
            t.pc \in {"sleep", "connect_retry"} => SelfDisconnected(t))

C15_Witness ==
    /\ voice_client = NoClient
    /\ \E t \in Live :
           SelfDisconnected(t) /\ t.pc = "connect_retry" /\ t.joins = 1

\* C16: every event other than a disconnect of the bot and a join of the
\* target channel is ignored: another member leaving, joining another
\* channel or changing state while staying in the target channel, and the
\* bot moving between channels, make no call and change nothing.
C16_OtherEventsIgnored ==
    [][(\/ MemberVoiceStateUpdate(VOICE_CHANNEL_ID, NoChannel)
        \/ MemberVoiceStateUpdate(NoChannel, OtherChannelId)
        \/ MemberVoiceStateUpdate(VOICE_CHANNEL_ID, VOICE_CHANNEL_ID)
        \/ \E a \in Channels \ {NoChannel} :
               SelfVoiceStateUpdate(a) /\ botChannel \notin {NoChannel, a})
       => /\ tasks' = tasks
          /\ done'.joins = 0
          /\ voice_client' = voice_client]_vars

\* C17: the stored voice client is always the one returned by the latest
\* successful connect (none before the first): every successful connect
\* stores its client over the previous one and nothing else assigns it.
C17_LatestClientStored ==
    /\ [](IF nextHandle = 1 THEN voice_client = NoClient
          ELSE voice_client = nextHandle - 1)
    /\ [][/\ \A r \in Live :
                ConnectSucceeds(r) => voice_client' = nextHandle
         /\ voice_client' # voice_client =>
                \E r \in Live : ConnectSucceeds(r)]_vars

C17_Witness == voice_client = 2 /\ nextHandle = 3

\* C18: one run of on_voice_state_update calls connect_to_voice_channel at
\* most once: a handler that took the disconnect branch never takes the
\* member-join branch, also when its retry failed and no voice client is
\* stored, and a handler in the member-join branch has called once.
C18_AtMostOneJoinPerHandler ==
    /\ [](\A t \in Records :
            /\ t.kind = "vsu" => t.joins <= 1
            /\ SelfDisconnected(t) => t.pc # "connect_follow"
            /\ t.pc = "connect_follow" =>
                   t.joins = 1 /\ t.after = VOICE_CHANNEL_ID)
    /\ [][\A r \in Live :
            ((ConnectFails(r) \/ ConnectSucceeds(r))
               /\ r.kind = "vsu")
            => /\ done' = [r EXCEPT !.pc = "done", !.printed = done'.printed]
               /\ BagCardinality(tasks') = BagCardinality(tasks) - 1]_vars

C18_Witness ==
    /\ SelfDisconnected(done) /\ done.pc = "done" /\ done.joins = 1
    /\ done.printed = "failed" /\ voice_client = NoClient

TypeOK ==
    /\ TOKEN \in TokenValues
    /\ mainpc \in {"start", "running", "exited"}
    /\ voice_client \in 0..MaxHandles
    /\ BagCardinality(tasks) <= MaxTasks
====
